---- MODULE Spec2Model ----
(***************************************************************************)
(* A model of the Collibra asset counter:                                  *)
(*   async_utils.py      make_concurrent_requests  (the batched fetcher)   *)
(*   optimized_counts.py get_counts_async          (the count aggregator)  *)
(*   get_all_assets.py   get_all_assets_async      (the asset enumerator)  *)
(*   main.py             process_asset_type, main  (the report builder)    *)
(*                                                                         *)
(* Four specifications share the variables:                                *)
(*   Spec       one run of make_concurrent_requests, task by task          *)
(*   SpecCounts one call of get_counts_async                               *)
(*   SpecEnum   one call of get_all_assets_async                           *)
(*   SpecMain   one run of main's loop over the configured asset types     *)
(***************************************************************************)
EXTENDS Integers, Sequences, FiniteSets, TLC

\* ------------------------------------------------------------------ bounds
MaxLen == 4
MaxChunk == 3
MaxAssets == 2
MaxTypes == 2

\* chunk_size: int = 10
DefaultChunkSize == 10

\* ------------------------------------------------------------ JSON values
\* A parsed JSON value: an object (the set of its member names, and the values
\* of the members "total" and "error" when it has them) or the scalar null.
JObject(keys, total, error) ==
    [type |-> "object", keys |-> keys, total |-> total, error |-> error]

JNull == [type |-> "null", keys |-> {}, total |-> 0, error |-> ""]

TotalBody(n) == JObject({"total"}, n, "")

NoTotalBody == JObject({"results"}, 0, "")

\* {'error': str(e)}
ErrorMarker(msg) == JObject({"error"}, 0, msg)

\* What the network does with one request: a JSON body, or one of the failures
\* session.request / response.json() raise.
Failure == {"network", "nonjson", "timeout"}

JsonOutcome(body) == [kind |-> "json", body |-> body]

FailOutcome(f) == [kind |-> f, body |-> JNull]

NoOutcome == [kind |-> "none", body |-> JNull]

Outcomes == {JsonOutcome(TotalBody(1))} \cup {FailOutcome(f) : f \in Failure}

Min(a, b) == IF a < b THEN a ELSE b

\* ---------------------------------------------------------------- state
VARIABLES
    urls,        \* the descriptors handed to make_concurrent_requests
    chunk_size,  \* its chunk_size argument
    i,           \* the for loop's offset (0-based, as in range(0, len, chunk_size))
    pc,          \* where make_concurrent_requests is: loop, gather, sleep, done, raised
    task,        \* per descriptor index: new, scheduled, inflight, done
    taskres,     \* per descriptor index: what its fetch coroutine returned
    results,     \* the results list
    served,      \* per descriptor index: what the network did with its request
    order,       \* the indices of the current chunk in completion order
    issued,      \* per descriptor index: how many requests were issued for it
    pauses,      \* how many asyncio.sleep(0.5) were executed
    trace,       \* the chunks submitted and the pauses taken, in order
    asset_ids,   \* the asset ids handed to get_counts_async
    server,      \* what the catalog does with the count request of (asset, type)
    counts,      \* the mapping get_counts_async returned
    cpc,         \* where get_counts_async is: idle, call, returned, raised
    asset_type_ids, \* the configured asset type ids main loops over
    t,           \* the position in asset_type_ids of the type main handles next
    dataframes,  \* main's dataframes: asset type name -> rows
    enumerated,  \* per handled position: the asset ids get_all_assets returned
    countCalls,  \* the positions get_all_counts was called for
    enumCall,    \* a call of get_all_assets_async: the response and the result
    mpc          \* where main is: idle, start, loop, serialize, nodata, aborted

fetchVars == <<urls, chunk_size, i, pc, task, taskres, results, served, order,
               issued, pauses, trace>>

countVars == <<asset_ids, server, counts, cpc>>

mainVars == <<asset_type_ids, t, dataframes, enumerated, countCalls, mpc>>

enumVars == <<enumCall>>

vars == <<fetchVars, countVars, mainVars, enumVars>>

\* ------------------------------------------------- make_concurrent_requests
\* except Exception as e: every failure of the request is an Exception.
Caught(kind) == kind \in Failure

fetch_uncaught(o) ==
    IF o.kind = "json"
    THEN [raised |-> FALSE, value |-> o.body]
    ELSE [raised |-> TRUE, value |-> JNull]

\* fetch: the parsed body, or the error marker when the request raised.
fetch(o) ==
    IF o.kind = "json"
    THEN [raised |-> FALSE, value |-> o.body]
    ELSE IF Caught(o.kind)
         THEN [raised |-> FALSE, value |-> ErrorMarker(o.kind)]
         ELSE [raised |-> TRUE, value |-> JNull]

ChunkIdx_overlap(n, off, cs) == (IF off = 0 THEN 1 ELSE off)..Min(off + cs, n)

\* urls[i:i + chunk_size], as 1-based indices.
ChunkIdx(n, off, cs) == (off + 1)..Min(off + cs, n)

gather_completion_order(res, ord, lo, hi) == [k \in 1..Len(ord) |-> res[ord[k]]]

\* asyncio.gather: the tasks' results in the order the tasks were passed.
gather(res, ord, lo, hi) == [k \in 1..(hi - lo + 1) |-> res[lo + k - 1]]

GatherReady_any(tk, idx) == \E j \in idx : tk[j] = "done"

\* await asyncio.gather(*tasks) resumes when every task has finished.
GatherReady(tk, idx) == \A j \in idx : tk[j] = "done"

NeedsPause_le(off, cs, n) == off + cs <= n

\* if i + chunk_size < len(urls)
NeedsPause(off, cs, n) == off + cs < n

FetchInit ==
    /\ \E n \in 0..MaxLen : urls = [k \in 1..n |-> k]
    /\ chunk_size \in 1..MaxChunk
    /\ i = 0
    /\ pc = "loop"
    /\ task = [k \in DOMAIN urls |-> "new"]
    /\ taskres = [k \in DOMAIN urls |-> JNull]
    /\ served = [k \in DOMAIN urls |-> NoOutcome]
    /\ issued = [k \in DOMAIN urls |-> 0]
    /\ results = <<>>
    /\ order = <<>>
    /\ pauses = 0
    /\ trace = <<>>

\* for i in range(...): chunk = urls[i:i + chunk_size]; process_chunk creates
\* one fetch coroutine per descriptor of the chunk and hands them to gather.
StartChunk ==
    /\ pc = "loop"
    /\ i < Len(urls)
    /\ pc' = "gather"
    /\ task' = [k \in DOMAIN task |->
                  IF k \in ChunkIdx(Len(urls), i, chunk_size)
                  THEN "scheduled" ELSE task[k]]
    /\ order' = <<>>
    /\ trace' = Append(trace, [ev |-> "chunk", lo |-> i + 1,
                               hi |-> Min(i + chunk_size, Len(urls))])
    /\ UNCHANGED <<urls, chunk_size, i, taskres, results, served, issued, pauses>>
    /\ UNCHANGED <<countVars, mainVars, enumVars>>

\* The event loop runs a scheduled fetch up to session.request: the request
\* is issued.
TaskStart(j) ==
    /\ pc = "gather"
    /\ task[j] = "scheduled"
    /\ task' = [task EXCEPT ![j] = "inflight"]
    /\ issued' = [issued EXCEPT ![j] = @ + 1]
    /\ UNCHANGED <<urls, chunk_size, i, pc, taskres, results, served, order,
                   pauses, trace>>
    /\ UNCHANGED <<countVars, mainVars, enumVars>>

\* The request of descriptor j ends: fetch returns the body or the error
\* marker; an exception fetch does not catch leaves gather and the call.
Respond(j, o) ==
    /\ pc = "gather"
    /\ task[j] = "inflight"
    /\ served' = [served EXCEPT ![j] = o]
    /\ task' = [task EXCEPT ![j] = "done"]
    /\ order' = Append(order, j)
    /\ IF fetch(o).raised
       THEN /\ pc' = "raised"
            /\ UNCHANGED taskres
       ELSE /\ taskres' = [taskres EXCEPT ![j] = fetch(o).value]
            /\ UNCHANGED pc
    /\ UNCHANGED <<urls, chunk_size, i, results, issued, pauses, trace>>
    /\ UNCHANGED <<countVars, mainVars, enumVars>>

\* gather returns; results.extend(chunk_results); then the pause, or the
\* next iteration.
Gather ==
    /\ pc = "gather"
    /\ GatherReady(task, ChunkIdx(Len(urls), i, chunk_size))
    /\ results' = results \o gather(taskres, order, i + 1,
                                    Min(i + chunk_size, Len(urls)))
    /\ IF NeedsPause(i, chunk_size, Len(urls))
       THEN /\ pc' = "sleep"
            /\ pauses' = pauses + 1
            /\ trace' = Append(trace, [ev |-> "pause", lo |-> 0, hi |-> 0])
            /\ UNCHANGED i
       ELSE /\ pc' = "loop"
            /\ i' = i + chunk_size
            /\ UNCHANGED <<pauses, trace>>
    /\ UNCHANGED <<urls, chunk_size, task, taskres, served, order, issued>>
    /\ UNCHANGED <<countVars, mainVars, enumVars>>

\* asyncio.sleep(0.5) is over: the next iteration of the for loop.
Wake ==
    /\ pc = "sleep"
    /\ pc' = "loop"
    /\ i' = i + chunk_size
    /\ UNCHANGED <<urls, chunk_size, task, taskres, results, served, order,
                   issued, pauses, trace>>
    /\ UNCHANGED <<countVars, mainVars, enumVars>>

\* The range is exhausted: the session closes, return results.
Return ==
    /\ pc = "loop"
    /\ i >= Len(urls)
    /\ pc' = "done"
    /\ UNCHANGED <<urls, chunk_size, i, task, taskres, results, served, order,
                   issued, pauses, trace>>
    /\ UNCHANGED <<countVars, mainVars, enumVars>>

FetchNext ==
    \/ StartChunk
    \/ \E j \in DOMAIN urls : TaskStart(j)
    \/ \E j \in DOMAIN urls : \E o \in Outcomes : Respond(j, o)
    \/ Gather
    \/ Wake
    \/ Return

\* make_concurrent_requests is not running.
FetchIdle ==
    /\ urls = <<>>
    /\ chunk_size = DefaultChunkSize
    /\ i = 0
    /\ pc = "idle"
    /\ task = <<>>
    /\ taskres = <<>>
    /\ served = <<>>
    /\ issued = <<>>
    /\ results = <<>>
    /\ order = <<>>
    /\ pauses = 0
    /\ trace = <<>>

\* The loop of make_concurrent_requests from offset off on, acc being results:
\* out[k] is what the network does with the request of descriptor k.
RECURSIVE ProcessChunks(_, _, _, _)
ProcessChunks(out, off, cs, acc) ==
    IF off >= Len(out)
    THEN acc
    ELSE LET hi == Min(off + cs, Len(out))
             res == [k \in 1..Len(out) |-> fetch(out[k]).value]
             ord == [k \in 1..(hi - off) |-> off + k]
         IN ProcessChunks(out, off + cs, cs, acc \o gather(res, ord, off + 1, hi))

\* The value one call of make_concurrent_requests returns (or that it raised),
\* as a function of what the network does with each request.
make_concurrent_requests(out, cs) ==
    IF \E k \in 1..Len(out) : fetch(out[k]).raised
    THEN [raised |-> TRUE, value |-> <<>>]
    ELSE [raised |-> FALSE, value |-> ProcessChunks(out, 0, cs, <<>>)]

\* ------------------------------------------------------- get_counts_async
AssetIds == {"X", "Y"}

AssetLists == UNION {[1..n -> AssetIds] : n \in 0..MaxAssets}

Range(seq) == {seq[k] : k \in 1..Len(seq)}

\* The 'type' tags, in the order the four blocks of requests are appended.
CountTypes == <<"attribute", "incoming", "outgoing", "responsibility">>

CountTypeSet == Range(CountTypes)

CountFields == {"attributes", "incoming", "outgoing", "responsibilities"}

\* The count the catalog holds for (asset, type): all eight differ.
TrueTotal(a, c) ==
    (IF a = "X" THEN 0 ELSE Len(CountTypes))
       + (CHOOSE k \in 1..Len(CountTypes) : CountTypes[k] = c)

\* What the catalog does with a count request.
ServerKinds == {"total", "nototal", "timeout", "null"}

\* The catalogs drawn: any of the four for each request about X, and a body
\* with or without total for each request about Y.
Servers ==
    {[cell \in AssetIds \X CountTypeSet |->
        IF cell[1] = "X" THEN sx[cell[2]] ELSE sy[cell[2]]] :
       sx \in [CountTypeSet -> ServerKinds],
       sy \in [CountTypeSet -> {"total", "nototal"}]}

ServerOutcome(srv, req) ==
    LET kind == srv[<<req.asset_id, req.type>>]
    IN CASE kind = "total" ->
              JsonOutcome(TotalBody(TrueTotal(req.asset_id, req.type)))
         [] kind = "nototal" -> JsonOutcome(NoTotalBody)
         [] kind = "timeout" -> FailOutcome("timeout")
         [] kind = "null" -> JsonOutcome(JNull)

\* requests: for each type in turn, one descriptor per asset id.
Requests(ids) ==
    LET n == Len(ids)
    IN [k \in 1..(Len(CountTypes) * n) |->
          [type |-> CountTypes[((k - 1) \div n) + 1],
           asset_id |-> ids[((k - 1) % n) + 1]]]

ZeroRecord_short == [f \in CountFields \ {"responsibilities"} |-> 0]

\* {'attributes': 0, 'incoming': 0, 'outgoing': 0, 'responsibilities': 0}
ZeroRecord == [f \in CountFields |-> 0]

\* results = {asset_id: {...} for asset_id in asset_ids}
InitialCounts(ids) == [a \in Range(ids) |-> ZeroRecord]

FieldOf_swapped(type) ==
    CASE type = "attribute" -> "attributes"
      [] type = "incoming" -> "outgoing"
      [] type = "outgoing" -> "incoming"
      [] type = "responsibility" -> "responsibilities"

\* The if/elif chain on count_type.
FieldOf(type) ==
    CASE type = "attribute" -> "attributes"
      [] type = "incoming" -> "incoming"
      [] type = "outgoing" -> "outgoing"
      [] type = "responsibility" -> "responsibilities"

\* results[asset_id][field] = value
SetField(res, a, f, v) ==
    LET rec == res[a]
    IN [res EXCEPT ![a] = [g \in DOMAIN rec \cup {f} |->
                              IF g = f THEN v ELSE rec[g]]]

\* for request, response in zip(requests, responses), from pair k on.
\* 'total' in response raises TypeError when response is not a container.
RECURSIVE Demux(_, _, _, _)
Demux(reqs, resps, k, res) ==
    IF k > Min(Len(reqs), Len(resps))
    THEN [raised |-> FALSE, value |-> res]
    ELSE IF resps[k].type # "object"
         THEN [raised |-> TRUE, value |-> res]
         ELSE Demux(reqs, resps, k + 1,
                    IF "total" \in resps[k].keys
                    THEN SetField(res, reqs[k].asset_id, FieldOf(reqs[k].type),
                                  resps[k].total)
                    ELSE res)

get_counts_async(ids, srv) ==
    LET requests == Requests(ids)
        fetched == make_concurrent_requests(
                      [k \in 1..Len(requests) |-> ServerOutcome(srv, requests[k])],
                      DefaultChunkSize)
    IN IF fetched.raised
       THEN [raised |-> TRUE, value |-> <<>>]
       ELSE Demux(requests, fetched.value, 1, InitialCounts(ids))

CountsInit ==
    /\ asset_ids \in AssetLists
    /\ server \in Servers
    /\ counts = <<>>
    /\ cpc = "call"

\* get_counts_async is not running.
CountsIdle ==
    /\ asset_ids = <<>>
    /\ server = [c \in AssetIds \X CountTypeSet |-> "total"]
    /\ counts = <<>>
    /\ cpc = "idle"

\* One call of get_counts_async, from the requests to the returned mapping.
GetCountsAsync ==
    /\ cpc = "call"
    /\ LET r == get_counts_async(asset_ids, server)
       IN /\ cpc' = (IF r.raised THEN "raised" ELSE "returned")
          /\ counts' = r.value
    /\ UNCHANGED <<asset_ids, server>>
    /\ UNCHANGED <<fetchVars, mainVars, enumVars>>

\* --------------------------------------------------- get_all_assets_async
\* What the GraphQL endpoint does with the query: the connection fails, or a
\* status and a body; a JSON object body may hold "errors", and "data" is
\* absent, null, an object without "assets", or holds assets that are null,
\* a list with an element without "id", or a list of {id} objects (assets).
EnumResponse(net, status, body, errors, data, assets) ==
    [net |-> net, status |-> status, body |-> body, errors |-> errors,
     data |-> data, assets |-> assets]

BadData == {"absent", "null", "noassets", "assetsnull", "badelem"}

\* The bodies: not JSON, the JSON null, a JSON list, or a JSON object.
EnumBodies ==
    {[body |-> "nonjson", errors |-> FALSE, data |-> "absent", assets |-> <<>>],
     [body |-> "null", errors |-> FALSE, data |-> "absent", assets |-> <<>>],
     [body |-> "list", errors |-> FALSE, data |-> "absent", assets |-> <<>>]}
    \cup {[body |-> "json", errors |-> e, data |-> d, assets |-> <<>>] :
             e \in BOOLEAN, d \in BadData}
    \cup {[body |-> "json", errors |-> e, data |-> "ok", assets |-> l] :
             e \in BOOLEAN, l \in AssetLists}

Statuses == {200, 201, 404, 500}

EnumResponses ==
    {EnumResponse("neterror", 0, "none", FALSE, "absent", <<>>)}
    \cup {EnumResponse("ok", st, b.body, b.errors, b.data, b.assets) :
             st \in Statuses, b \in EnumBodies}

\* The body of the try block: the value returned, or the exception raised.
get_all_assets_try(resp) ==
    IF resp.net # "ok" THEN [exc |-> "ClientError", value |-> <<>>]
    ELSE IF resp.status # 200 THEN [exc |-> "none", value |-> <<>>]
    ELSE IF resp.body = "nonjson" THEN [exc |-> "ClientError", value |-> <<>>]
    ELSE IF resp.body = "null" THEN [exc |-> "TypeError", value |-> <<>>]
    ELSE IF resp.body = "list" THEN [exc |-> "none", value |-> <<>>]
    ELSE IF resp.errors THEN [exc |-> "none", value |-> <<>>]
    ELSE IF resp.data = "absent" THEN [exc |-> "none", value |-> <<>>]
    ELSE IF resp.data = "null" THEN [exc |-> "TypeError", value |-> <<>>]
    ELSE IF resp.data = "noassets" THEN [exc |-> "none", value |-> <<>>]
    ELSE IF resp.data = "assetsnull" THEN [exc |-> "TypeError", value |-> <<>>]
    ELSE IF resp.data = "badelem" THEN [exc |-> "KeyError", value |-> <<>>]
    ELSE [exc |-> "none", value |-> resp.assets]

Handled_clienterror(exc) == exc = "ClientError"

\* except aiohttp.ClientError ... except Exception
Handled(exc) == exc \in {"ClientError", "TypeError", "KeyError"}

get_all_assets_async(resp) ==
    LET r == get_all_assets_try(resp)
    IN IF r.exc = "none" THEN [raised |-> FALSE, value |-> r.value]
       ELSE IF Handled(r.exc) THEN [raised |-> FALSE, value |-> <<>>]
       ELSE [raised |-> TRUE, value |-> <<>>]

EnumInit ==
    enumCall \in {[set |-> FALSE, raised |-> FALSE, assets |-> <<>>, resp |-> r] :
                    r \in EnumResponses}

\* get_all_assets_async is not running.
EnumIdle ==
    enumCall = [set |-> FALSE, raised |-> FALSE, assets |-> <<>>,
                resp |-> EnumResponse("neterror", 0, "none", FALSE, "absent", <<>>)]

\* One call of get_all_assets_async, the endpoint answering enumCall.resp.
GetAllAssetsAsync ==
    /\ ~enumCall.set
    /\ LET r == get_all_assets_async(enumCall.resp)
       IN enumCall' = [enumCall EXCEPT !.set = TRUE, !.raised = r.raised,
                                       !.assets = r.value]
    /\ UNCHANGED <<fetchVars, countVars, mainVars>>

\* ---------------------------------------------- process_asset_type and main
\* Asset type ids: the first 8 characters and the rest.
TypeIds ==
    {[p |-> "aaaaaaaa", r |-> "1"], [p |-> "aaaaaaaa", r |-> "2"],
     [p |-> "bbbbbbbb", r |-> "1"]}

\* The configured lists: distinct asset type ids.
TypeLists ==
    {l \in UNION {[1..n -> TypeIds] : n \in 0..MaxTypes} :
        \A a, b \in 1..Len(l) : a # b => l[a] # l[b]}

\* What get_asset_type_name returns: a display name, or nothing.
NoName == ""

NameResults == {"Table", NoName}

\* asset_type_name, or f"AssetType_{asset_type_id[:8]}" when there is none.
TypeName(id, looked) ==
    IF looked = NoName
    THEN [kind |-> "AssetType_", text |-> id.p]
    ELSE [kind |-> "", text |-> looked]

\* The catalogs of a run of main: every count there, the outgoing count of X
\* timing out and Y's responsibilities without total, a null body for X.
MainServers ==
    {[cell \in AssetIds \X CountTypeSet |-> "total"],
     [cell \in AssetIds \X CountTypeSet |->
        IF cell = <<"X", "outgoing">> THEN "timeout"
        ELSE IF cell = <<"Y", "responsibility">> THEN "nototal" ELSE "total"],
     [cell \in AssetIds \X CountTypeSet |->
        IF cell = <<"X", "attribute">> THEN "null" ELSE "total"]}

\* The asset lists the endpoint gives a run of main: distinct assets.
EnumLists == {l \in AssetLists : \A a, b \in 1..Len(l) : a # b => l[a] # l[b]}

\* What the endpoint answers a run of main: no connection, HTTP 500, an
\* "errors" payload, no "data", or the assets of the type.
MainEnumResponses ==
    {EnumResponse("neterror", 0, "none", FALSE, "absent", <<>>),
     EnumResponse("ok", 500, "nonjson", FALSE, "absent", <<>>),
     EnumResponse("ok", 200, "json", TRUE, "null", <<>>),
     EnumResponse("ok", 200, "json", FALSE, "absent", <<>>)}
    \cup {EnumResponse("ok", 200, "json", FALSE, "ok", l) : l \in EnumLists}

\* get_all_counts: asyncio.run(get_counts_async(...)).
get_all_counts[ids \in EnumLists, srv \in MainServers] == get_counts_async(ids, srv)

\* counts.get(asset_id, {}).get(field, 0)
CountsGet(c, a, f) ==
    IF a \in DOMAIN c THEN (IF f \in DOMAIN c[a] THEN c[a][f] ELSE 0) ELSE 0

Row(a, name, id, c) ==
    [assetId |-> a, assetTypeName |-> name, assetTypeId |-> id,
     attributeCount |-> CountsGet(c, a, "attributes"),
     incomingRelationCount |-> CountsGet(c, a, "incoming"),
     outgoingRelationCount |-> CountsGet(c, a, "outgoing"),
     responsibilitiesRelationCount |-> CountsGet(c, a, "responsibilities")]

\* if not asset_ids: return pd.DataFrame()
SkipCounts(ids) == ids = <<>>

\* process_asset_type after get_all_assets returned ids: the DataFrame, whether
\* get_all_counts was called, whether it raised.
process_asset_type(id, name, ids, srv) ==
    IF SkipCounts(ids)
    THEN [raised |-> FALSE, called |-> FALSE, df |-> <<>>]
    ELSE LET c == get_all_counts[ids, srv]
         IN IF c.raised
            THEN [raised |-> TRUE, called |-> TRUE, df |-> <<>>]
            ELSE [raised |-> FALSE, called |-> TRUE,
                  df |-> [k \in 1..Len(ids) |-> Row(ids[k], name, id, c.value)]]

KeepFrame_always(df) == TRUE

\* if not df.empty
KeepFrame(df) == df # <<>>

\* dataframes[asset_type_name] = df
Put(d, k, v) == [x \in DOMAIN d \cup {k} |-> IF x = k THEN v ELSE d[x]]

MainInit ==
    /\ asset_type_ids \in TypeLists
    /\ server \in MainServers
    /\ t = 1
    /\ dataframes = <<>>
    /\ enumerated = <<>>
    /\ countCalls = {}
    /\ mpc = "start"
    /\ asset_ids = <<>>
    /\ counts = <<>>
    /\ cpc = "idle"

\* main is not running.
MainIdle ==
    /\ asset_type_ids = <<>>
    /\ t = 1
    /\ dataframes = <<>>
    /\ enumerated = <<>>
    /\ countCalls = {}
    /\ mpc = "idle"

\* load_asset_type_ids: an empty list raises ValueError, caught at the end of
\* main.
Startup ==
    /\ mpc = "start"
    /\ mpc' = (IF asset_type_ids = <<>> THEN "aborted" ELSE "loop")
    /\ UNCHANGED <<asset_type_ids, t, dataframes, enumerated, countCalls>>
    /\ UNCHANGED <<fetchVars, countVars, enumVars>>

\* One iteration of main's loop: the name lookup answers looked, the GraphQL
\* endpoint answers resp; process_asset_type; the frame is kept under the name.
\* An exception of the iteration ends main in its except clause.
ProcessAssetType(looked, resp) ==
    /\ mpc = "loop"
    /\ t <= Len(asset_type_ids)
    /\ LET id == asset_type_ids[t]
           name == TypeName(id, looked)
           enum == get_all_assets_async(resp)
           r == process_asset_type(id, name, enum.value, server)
       IN IF enum.raised
          THEN /\ mpc' = "aborted"
               /\ UNCHANGED <<t, dataframes, enumerated, countCalls>>
          ELSE /\ countCalls' = (IF r.called THEN countCalls \cup {t}
                                 ELSE countCalls)
               /\ enumerated' = Append(enumerated, [ids |-> enum.value,
                                                    status |-> resp.status])
               /\ IF r.raised
                  THEN /\ mpc' = "aborted"
                       /\ UNCHANGED <<t, dataframes>>
                  ELSE /\ dataframes' = (IF KeepFrame(r.df)
                                         THEN Put(dataframes, name, r.df)
                                         ELSE dataframes)
                       /\ t' = t + 1
                       /\ UNCHANGED mpc
    /\ UNCHANGED asset_type_ids
    /\ UNCHANGED <<fetchVars, countVars, enumVars>>

\* The loop is over: nothing to write, or the frames go to serialization.
Finish ==
    /\ mpc = "loop"
    /\ t > Len(asset_type_ids)
    /\ mpc' = (IF DOMAIN dataframes = {} THEN "nodata" ELSE "serialize")
    /\ UNCHANGED <<asset_type_ids, t, dataframes, enumerated, countCalls>>
    /\ UNCHANGED <<fetchVars, countVars, enumVars>>

MainNext ==
    \/ Startup
    \/ \E looked \in NameResults : \E resp \in MainEnumResponses :
          ProcessAssetType(looked, resp)
    \/ Finish

\* ---------------------------------------------------------- specifications
Init == FetchInit /\ CountsIdle /\ MainIdle /\ EnumIdle

Next == FetchNext

Spec == Init /\ [][Next]_vars

InitCounts == FetchIdle /\ CountsInit /\ MainIdle /\ EnumIdle

NextCounts == GetCountsAsync

SpecCounts == InitCounts /\ [][NextCounts]_vars

InitEnum == FetchIdle /\ CountsIdle /\ MainIdle /\ EnumInit

NextEnum == GetAllAssetsAsync

SpecEnum == InitEnum /\ [][NextEnum]_vars

InitMain == FetchIdle /\ MainInit /\ EnumIdle

NextMain == MainNext

SpecMain == InitMain /\ [][NextMain]_vars

\* ------------------------------------------------------ claims on the fetcher
\* What the slot of a request must hold, given what the network did with it.
Expected(o) == IF o.kind = "json" THEN o.body ELSE ErrorMarker(o.kind)

CeilDiv(a, b) == (a + b - 1) \div b

RECURSIVE SumTo(_, _)
SumTo(f, n) == IF n = 0 THEN 0 ELSE f[n] + SumTo(f, n - 1)

InFlight == {j \in DOMAIN task : task[j] = "inflight"}

\* C1: the returned list has one entry per descriptor, and entry k is the
\* outcome of descriptor k (its parsed body or its error marker), in whatever
\* order the requests of a chunk completed; while the call runs, results is
\* the prefix of that list for the chunks gathered so far.
C1_OrderPreserved ==
    /\ Len(results) <= Len(urls)
    /\ \A k \in 1..Len(results) : results[k] = Expected(served[k])
    /\ pc = "done" => Len(results) = Len(urls)

\* C1 witness: a finished run of at least three descriptors, with a body and
\* an error marker among the results, whose last chunk completed out of order.
C1_Witness ==
    /\ pc = "done"
    /\ Len(urls) >= 3
    /\ \E a, b \in 1..Len(results) :
          results[a].keys = {"error"} /\ results[b].keys = {"total"}
    /\ \E a, b \in 1..Len(order) : a < b /\ order[a] > order[b]

\* C2: never more than chunk_size requests in flight, no descriptor issued
\* twice, and at the return every descriptor issued once, len(urls) in all.
C2_BoundedInFlight ==
    /\ Cardinality(InFlight) <= chunk_size
    /\ \A j \in DOMAIN urls : issued[j] <= 1
    /\ pc = "done" =>
          /\ \A j \in DOMAIN urls : issued[j] = 1
          /\ SumTo(issued, Len(urls)) = Len(urls)

\* C2 witness: a later chunk with chunk_size >= 2 requests in flight at once.
C2_Witness ==
    /\ chunk_size >= 2
    /\ i > 0
    /\ Cardinality(InFlight) = chunk_size

\* The chunks and pauses a run over n descriptors must have taken: chunk m
\* covers (m-1)*cs+1 .. min(m*cs, n), and a pause follows every chunk but the
\* last.
TraceIsChunked(tr, n, cs) ==
    /\ Len(tr) = (IF n = 0 THEN 0 ELSE 2 * CeilDiv(n, cs) - 1)
    /\ \A k \in 1..Len(tr) :
          IF k % 2 = 1
          THEN /\ tr[k].ev = "chunk"
               /\ tr[k].lo = ((k - 1) \div 2) * cs + 1
               /\ tr[k].hi = Min(((k + 1) \div 2) * cs, n)
               /\ tr[k].hi - tr[k].lo + 1 <= cs
          ELSE tr[k].ev = "pause"

\* C3 as stated: a finished run has taken exactly ceil(len/chunk_size) - 1
\* pauses.
C3_PausesAsStated ==
    pc = "done" => pauses = CeilDiv(Len(urls), chunk_size) - 1

\* C3 amended: a finished run over a non-empty list ran consecutive chunks of
\* at most chunk_size with a pause after every chunk but the last, that is
\* ceil(len/chunk_size) - 1 pauses; over the empty list it ran no chunk and
\* took no pause.
C3_Pauses ==
    pc = "done" =>
       /\ TraceIsChunked(trace, Len(urls), chunk_size)
       /\ pauses = (IF Len(urls) = 0 THEN 0
                    ELSE CeilDiv(Len(urls), chunk_size) - 1)

\* C3 witness: a finished run with a pause and a short last chunk (as 10 + 2).
C3_Witness ==
    /\ pc = "done"
    /\ pauses >= 1
    /\ Len(urls) % chunk_size # 0
    /\ chunk_size >= 2

\* C4: no failure of a request leaves the call; a failed request's slot holds
\* its error marker, and every other descriptor is still issued and has its
\* own result in its own slot.
C4_FailureIsolated ==
    /\ pc # "raised"
    /\ \A k \in DOMAIN urls :
          (task[k] = "done" /\ served[k].kind \in Failure)
             => taskres[k] = ErrorMarker(served[k].kind)
    /\ pc = "done" =>
          \A k \in DOMAIN urls :
             /\ issued[k] = 1
             /\ k <= Len(results)
             /\ served[k].kind \in Failure
                   => results[k] = ErrorMarker(served[k].kind)
             /\ served[k].kind = "json" => results[k] = served[k].body

\* C4 witness: the first request failed, and a sibling of its chunk and a
\* request of a later chunk both returned their bodies.
C4_Witness ==
    /\ pc = "done"
    /\ chunk_size >= 2
    /\ Len(urls) > chunk_size
    /\ served[1].kind = "timeout"
    /\ results[2] = TotalBody(1)
    /\ results[Len(urls)] = TotalBody(1)

\* The number of the chunk descriptor j falls in (1-based).
ChunkOf(j) == ((j - 1) \div chunk_size) + 1

\* C9: a request is submitted only when every request of the earlier chunks
\* is done and the pauses between them were taken; during the pause nothing
\* of a later chunk is submitted; and a submitted request is done (issued,
\* not skipped) before the call moves past its chunk.
C9_ChunksSequential ==
    /\ \A j \in DOMAIN urls :
          task[j] # "new" =>
             /\ \A h \in DOMAIN urls : ChunkOf(h) < ChunkOf(j) => task[h] = "done"
             /\ pauses >= ChunkOf(j) - 1
             /\ (pc = "sleep" => ChunkOf(j) <= pauses)
    /\ pc \in {"loop", "sleep", "done"} =>
          \A j \in DOMAIN urls : task[j] \in {"new", "done"}
    /\ \A j \in DOMAIN urls : task[j] = "done" => issued[j] = 1
    /\ pc = "done" => \A j \in DOMAIN urls : task[j] = "done"

\* C9 witness: a second chunk in progress after a pause, one of its requests
\* in flight and another not yet started.
C9_Witness ==
    /\ pc = "gather"
    /\ pauses >= 1
    /\ \E j, h \in DOMAIN urls : task[j] = "inflight" /\ task[h] = "scheduled"

\* ------------------------------------------------- claims on get_counts_async
\* Every response the call received is a JSON object or an error marker (the
\* shapes the claims name: with total, without total, error marker).
ObjectResponses ==
    \A a \in Range(asset_ids) : \A c \in CountTypeSet : server[<<a, c>>] # "null"

FieldNamed(c) ==
    IF c = "attribute" THEN "attributes"
    ELSE IF c = "responsibility" THEN "responsibilities" ELSE c

WellFormed(resp) ==
    /\ resp.net = "ok"
    /\ resp.body = "json"
    /\ ~resp.errors
    /\ resp.data = "ok"

IsSuccess(status) == 200 <= status /\ status < 300

\* C7: a call of get_all_assets_async does not raise; it returns the empty
\* list when the request fails, the status is not a success, the body holds
\* "errors", or data.assets is absent or malformed; what it returns otherwise
\* is the ids of data.assets in response order, and a 200 response with a
\* well-formed data.assets list does yield them.
C7_EnumeratorNeverRaises ==
    enumCall.set =>
       /\ ~enumCall.raised
       /\ (~WellFormed(enumCall.resp) \/ ~IsSuccess(enumCall.resp.status))
             => enumCall.assets = <<>>
       /\ enumCall.assets \in {<<>>, enumCall.resp.assets}
       /\ (WellFormed(enumCall.resp) /\ enumCall.resp.status = 200)
             => enumCall.assets = enumCall.resp.assets

\* C7 witness: a 200 response whose "data" is null gave the empty list.
C7_Witness ==
    /\ enumCall.set
    /\ enumCall.resp.status = 200
    /\ enumCall.resp.data = "null"
    /\ ~enumCall.resp.errors
    /\ enumCall.assets = <<>>

\* The rows of type id in the frames.
RowsOfType(id) ==
    {<<n, k>> \in UNION {{n} \X (1..Len(dataframes[n])) : n \in DOMAIN dataframes} :
        dataframes[n][k].assetTypeId = id}

\* C8: an asset type whose enumeration gave no asset has no row in any frame,
\* no frame is empty, and get_all_counts was not called for it.
C8_EmptyTypesDropped ==
    /\ \A n \in DOMAIN dataframes : dataframes[n] # <<>>
    /\ \A k \in 1..Len(enumerated) :
          enumerated[k].ids = <<>> =>
             /\ k \notin countCalls
             /\ RowsOfType(asset_type_ids[k]) = {}

\* C8 witness: the frames go to serialization, the first type kept and the
\* second dropped after an HTTP 500.
C8_Witness ==
    /\ mpc = "serialize"
    /\ Len(enumerated) = 2
    /\ enumerated[1].ids # <<>>
    /\ enumerated[2].ids = <<>>
    /\ enumerated[2].status = 500

\* C10: every handled asset type that had assets has a frame of its own:
\* one row per enumerated asset, in order, each carrying its type id; later
\* types do not remove it.
C10_AllTypesRetained ==
    mpc \in {"loop", "serialize"} =>
       \A k \in 1..Len(enumerated) :
          enumerated[k].ids # <<>> =>
             \E n \in DOMAIN dataframes :
                /\ Len(dataframes[n]) = Len(enumerated[k].ids)
                /\ \A j \in 1..Len(enumerated[k].ids) :
                      /\ dataframes[n][j].assetId = enumerated[k].ids[j]
                      /\ dataframes[n][j].assetTypeId = asset_type_ids[k]

====
